---- MODULE Spec2Model ----
\* Model of the GuiaVision realtime media-session orchestrator:
\*   src/App.tsx    the App component (session state machine, playback scheduler,
\*                  frame sampler, audio send loop)
\*   src/types.ts   AppState and connectGeminiLive (the transport callbacks)
\* The browser runs everything on one event queue: every action below is one
\* task (a click handler, a promise continuation, a transport callback, a timer
\* or audio callback) run to its end or to its next await.
EXTENDS Integers, Sequences, FiniteSets, TLC

\* ---------------------------------------------------------------- bounds
MaxStarts  == 2    \* startAssistance invocations in one run
MaxMsgs    == 3    \* transport messages delivered in one run
MaxClock   == 2    \* real time elapsed, in chunk-duration units
MaxDur     == 1    \* longest decoded chunk
MaxAudioCb == 1    \* onaudioprocess callbacks in one run
MaxTicks   == 2    \* frame sampler ticks in one run
MaxLoad    == 3    \* environment events in one run (see Load and budget)

\* ---------------------------------------------------------------- AppState
IDLE       == "IDLE"
CONNECTING == "CONNECTING"
ACTIVE     == "ACTIVE"
ERROR      == "ERROR"
AppState   == {IDLE, CONNECTING, ACTIVE, ERROR}

Starts == 1..MaxStarts

VARIABLES
  status,            \* useState<AppState>: the latest value given to setStatus
  shown,             \* the status value of the last render (what closures and buttons see)
  lastTranscript,    \* useState<string>: 0 is "", n is the text of message n
  audioContextRef,   \* output AudioContext of start k, 0 is null
  sessionRef,        \* session of start k, 0 is null
  nextStartTime,     \* nextStartTimeRef.current
  activeSources,     \* activeSourcesRef.current: handles (indices of log)
  frameIntervalRef,  \* timer id of start k, 0 is null
  videoSrc,          \* videoRef.current.srcObject: stream of start k, 0 is unset
  pc,                \* per startAssistance invocation: where its async body is
  cap,               \* per invocation: the status constant its closures captured
  sess,              \* per invocation: its transport session
  closeCalls,        \* per session: close() calls made on it
  stream,            \* per invocation: its capture stream
  timers,            \* armed setInterval timers
  graph,             \* invocations whose ScriptProcessor graph is connected
  now,               \* real time
  ctxBirth,          \* per output context: real time of its creation
  log,               \* every source node ever started, in scheduling order
  flushed,           \* what emptied the schedule last, "no" once a chunk is scheduled
  pending,           \* onmessage handlers suspended on their decode
  delivered,         \* messages delivered so far
  interruptedAt,     \* latest message whose interrupt was handled, 0 if none
  userSaid,          \* latest message whose input transcription was handed over, 0 if none
  cbFired,           \* onaudioprocess callbacks fired
  cbOwed,            \* of these, fired while status was ACTIVE with a session
  sent,              \* sendRealtimeInput calls, in order
  frames,            \* per frame sampler tick: where its encode is
  budget             \* environment events this run may use; never changes

vars == <<status, shown, lastTranscript, audioContextRef, sessionRef, nextStartTime,
          activeSources, frameIntervalRef, videoSrc, pc, cap, sess, closeCalls,
          stream, timers, graph, now, ctxBirth, log, flushed, pending, delivered,
          interruptedAt, userSaid, cbFired, cbOwed, sent, frames, budget>>

refs     == <<audioContextRef, sessionRef, frameIntervalRef, videoSrc>>
audio    == <<nextStartTime, activeSources, log, flushed>>
procs    == <<pc, cap>>
devices  == <<stream, timers, graph>>
clock    == <<now, ctxBirth>>
inbound  == <<pending, delivered, interruptedAt, userSaid>>
outbound == <<cbFired, cbOwed, sent, frames>>

Max(a, b) == IF a >= b THEN a ELSE b

\* ---------------------------------------------------------------- messages
\* A LiveServerMessage as onmessage reads it: audio is the duration of the inline
\* audio payload (0: none), the rest are the serverContent fields tested.
Messages ==
  { m \in [audio : 0..MaxDur, interrupted : BOOLEAN, outT : BOOLEAN, inT : BOOLEAN] :
      /\ m.audio > 0 \/ m.interrupted \/ m.outT \/ m.inT
      /\ ~(m.outT /\ m.inT)
      /\ (m.audio > 0 \/ m.interrupted) => ~(m.outT \/ m.inT) }

\* The exploration budget. A run is explored up to `budget` environment events:
\* inbound ones (messages, clock ticks), outbound ones (audio callbacks, frame
\* sampler ticks) and restarts. A restart counts twice, a chunk counts once per
\* time unit of audio it carries, and a run that has both inbound and outbound
\* events pays one more.
Restarts == Cardinality({j \in Starts : j > 1 /\ pc[j] # "idle"})
RECURSIVE LogSurplus(_)
LogSurplus(i) == IF i = 0 THEN 0 ELSE (log[i].dur - 1) + LogSurplus(i - 1)
RECURSIVE PendingSurplus(_)
PendingSurplus(S) ==
  IF S = {} THEN 0
  ELSE LET p == CHOOSE x \in S : TRUE IN (p.m.audio - 1) + PendingSurplus(S \ {p})
Inbound  == delivered + now + LogSurplus(Len(log)) + PendingSurplus(pending)
Outbound == cbFired + Len(frames)
Load == 2 * Restarts + Inbound + Outbound
          + (IF Inbound > 0 /\ Outbound > 0 THEN 1 ELSE 0)
\* What the next inbound (outbound) event adds to Load
InboundCost  == IF Inbound = 0 /\ Outbound > 0 THEN 2 ELSE 1
OutboundCost == IF Outbound = 0 /\ Inbound > 0 THEN 2 ELSE 1

\* ---------------------------------------------------------------- playback scheduler
\* ctx.currentTime of output context c
currentTime(c) == now - ctxBirth[c]

\* The scheduler's state as one value, so that handlers that call both
\* onAudioOutput and stopAudio in one task can be composed.
AudioState == [next |-> nextStartTime, active |-> activeSources, log |-> log,
               flushed |-> flushed]

SetAudio(a) ==
  /\ nextStartTime' = a.next
  /\ activeSources' = a.active
  /\ log' = a.log
  /\ flushed' = a.flushed

\* stopAudio that forgets `nextStartTimeRef.current = 0`
stopAudio_KeepCursor(a, cause) ==
  [next    |-> a.next,
   active  |-> {},
   log     |-> [h \in DOMAIN a.log |->
                  IF h \in a.active THEN [a.log[h] EXCEPT !.state = "stopped"]
                  ELSE a.log[h]],
   flushed |-> cause]

stopAudio(a, cause) ==
  [next    |-> 0,
   active  |-> {},
   log     |-> [h \in DOMAIN a.log |->
                  IF h \in a.active THEN [a.log[h] EXCEPT !.state = "stopped"]
                  ELSE a.log[h]],
   flushed |-> cause]

\* onAudioOutput that starts every chunk at ctx.currentTime, ignoring the cursor
onAudioOutput_NoCursor(a, dur, p) ==
  IF audioContextRef = 0 THEN a
  ELSE LET ctx     == audioContextRef
           startAt == currentTime(ctx)
           h       == Len(a.log) + 1
       IN [next    |-> startAt + dur,
           active  |-> a.active \cup {h},
           log     |-> Append(a.log,
                         [start |-> startAt, dur |-> dur, ctx |-> ctx,
                          clock |-> currentTime(ctx), cursor |-> a.next,
                          after |-> a.flushed, msg |-> p.id, via |-> p.s,
                          intr |-> interruptedAt, state |-> "scheduled"]),
           flushed |-> "no"]

\* onAudioOutput that leaves the cursor at the start of the chunk it scheduled
onAudioOutput_NoAdvance(a, dur, p) ==
  IF audioContextRef = 0 THEN a
  ELSE LET ctx     == audioContextRef
           startAt == Max(a.next, currentTime(ctx))
           h       == Len(a.log) + 1
       IN [next    |-> startAt,
           active  |-> a.active \cup {h},
           log     |-> Append(a.log,
                         [start |-> startAt, dur |-> dur, ctx |-> ctx,
                          clock |-> currentTime(ctx), cursor |-> a.next,
                          after |-> a.flushed, msg |-> p.id, via |-> p.s,
                          intr |-> interruptedAt, state |-> "scheduled"]),
           flushed |-> "no"]

onAudioOutput(a, dur, p) ==
  IF audioContextRef = 0 THEN a
  ELSE LET ctx     == audioContextRef
           startAt == Max(a.next, currentTime(ctx))
           h       == Len(a.log) + 1
       IN [next    |-> startAt + dur,
           active  |-> a.active \cup {h},
           log     |-> Append(a.log,
                         [start |-> startAt, dur |-> dur, ctx |-> ctx,
                          clock |-> currentTime(ctx), cursor |-> a.next,
                          after |-> a.flushed, msg |-> p.id, via |-> p.s,
                          intr |-> interruptedAt, state |-> "scheduled"]),
           flushed |-> "no"]

onInterrupted(a) == stopAudio(a, "interrupted")

\* onTranscription that shows the user's words too
onTranscription_AnyUser(last, text, isUser) == text

\* onTranscription: the new lastTranscript
onTranscription(last, text, isUser) == IF ~isUser THEN text ELSE last

\* ---------------------------------------------------------------- connectGeminiLive.onmessage
\* The part of onmessage after the audio branch
AfterAudio(a, m) == IF m.interrupted THEN onInterrupted(a) ELSE a

Transcripts(last, m, id) ==
  LET l1 == IF m.outT THEN onTranscription(last, id, FALSE) ELSE last
  IN IF m.inT THEN onTranscription(l1, id, TRUE) ELSE l1

\* The latest message whose interrupt was handled, once the handler of message
\* id has run its interrupt branch
Interrupted(m, id) == IF m.interrupted THEN Max(interruptedAt, id) ELSE interruptedAt

\* The latest message whose input transcription reached onTranscription, once
\* the handler of message id has run its transcription branches
UserSaid(m, id) == IF m.inT THEN Max(userSaid, id) ELSE userSaid

\* A message arrives on an open session. With audio, the handler suspends on
\* the decode; without, it runs to its end.
Deliver(k, m) ==
  /\ sess[k] = "open"
  /\ delivered < MaxMsgs
  /\ Load + InboundCost + Max(m.audio, 1) - 1 <= budget
  /\ delivered' = delivered + 1
  /\ IF m.audio > 0
     THEN /\ pending' = pending \cup {[id |-> delivered + 1, s |-> k, m |-> m]}
          /\ UNCHANGED <<audio, lastTranscript, interruptedAt, userSaid>>
     ELSE /\ SetAudio(AfterAudio(AudioState, m))
          /\ interruptedAt' = Interrupted(m, delivered + 1)
          /\ userSaid' = UserSaid(m, delivered + 1)
          /\ lastTranscript' = Transcripts(lastTranscript, m, delivered + 1)
          /\ UNCHANGED pending
  /\ UNCHANGED <<status, shown, refs, procs, sess, closeCalls, devices, clock, outbound>>
  /\ UNCHANGED budget

\* decodeAudioData (utils/audio-utils): an asynchronous decode. The promise of a
\* suspended handler may settle at any later task, in no order among the
\* pending ones.
decodeAudioData(p) == p \in pending

\* The decode of a suspended handler completes: onAudioOutput, then the rest.
DecodeDone(p) ==
  /\ decodeAudioData(p)
  /\ pending' = pending \ {p}
  /\ SetAudio(AfterAudio(onAudioOutput(AudioState, p.m.audio, p), p.m))
  /\ interruptedAt' = Interrupted(p.m, p.id)
  /\ userSaid' = UserSaid(p.m, p.id)
  /\ lastTranscript' = Transcripts(lastTranscript, p.m, p.id)
  /\ UNCHANGED <<status, shown, refs, procs, sess, closeCalls, devices, clock,
                 delivered, outbound>>
  /\ UNCHANGED budget

\* The decode of a suspended handler fails: the await throws, the handler's
\* promise rejects and the rest of onmessage does not run.
DecodeFail(p) ==
  /\ decodeAudioData(p)
  /\ pending' = pending \ {p}
  /\ UNCHANGED <<status, shown, lastTranscript, refs, audio, procs, sess, closeCalls,
                 devices, clock, delivered, interruptedAt, userSaid, outbound>>
  /\ UNCHANGED budget

\* source.onended: natural completion of a started source
Ended(h) ==
  /\ h \in activeSources
  /\ currentTime(log[h].ctx) >= log[h].start + log[h].dur
  /\ activeSources' = activeSources \ {h}
  /\ log' = [log EXCEPT ![h].state = "ended"]
  /\ UNCHANGED <<status, shown, lastTranscript, refs, nextStartTime, flushed, procs,
                 sess, closeCalls, devices, clock, inbound, outbound>>
  /\ UNCHANGED budget

Tick ==
  /\ now < MaxClock
  /\ Load + InboundCost <= budget
  /\ now' = now + 1
  /\ UNCHANGED <<status, shown, lastTranscript, refs, audio, procs, sess, closeCalls,
                 devices, ctxBirth, inbound, outbound>>
  /\ UNCHANGED budget

\* ---------------------------------------------------------------- startAssistance
\* The click on the start button, up to the await of getUserMedia. The button is
\* rendered only when the rendered status is not ACTIVE; the update made in the
\* click handler is rendered before the next event.
StartClick ==
  LET k == Cardinality({j \in Starts : pc[j] # "idle"}) + 1 IN
  /\ shown # ACTIVE
  /\ k \in Starts
  /\ k > 1 => Load + 2 <= budget
  /\ status' = CONNECTING
  /\ shown' = CONNECTING
  /\ cap' = [cap EXCEPT ![k] = shown]
  /\ audioContextRef' = k
  /\ ctxBirth' = [ctxBirth EXCEPT ![k] = now]
  /\ pc' = [pc EXCEPT ![k] = "media"]
  /\ UNCHANGED <<lastTranscript, sessionRef, frameIntervalRef, videoSrc, audio, sess,
                 closeCalls, devices, now, inbound, outbound>>
  /\ UNCHANGED budget

\* getUserMedia resolves: srcObject is set and connectGeminiLive is called.
MediaOk(k) ==
  /\ pc[k] = "media"
  /\ stream' = [stream EXCEPT ![k] = "live"]
  /\ videoSrc' = k
  /\ sess' = [sess EXCEPT ![k] = "connecting"]
  /\ pc' = [pc EXCEPT ![k] = "connect"]
  /\ UNCHANGED <<status, shown, lastTranscript, audioContextRef, sessionRef,
                 frameIntervalRef, audio, cap, closeCalls, timers, graph, clock,
                 inbound, outbound>>
  /\ UNCHANGED budget

\* A catch block that swallows the failure without setStatus(ERROR)
catch_Silent(k) ==
  /\ status' = status
  /\ pc' = [pc EXCEPT ![k] = "failed"]

\* The catch block
catch(k) ==
  /\ status' = ERROR
  /\ pc' = [pc EXCEPT ![k] = "failed"]

\* getUserMedia rejects
MediaFail(k) ==
  /\ pc[k] = "media"
  /\ catch(k)
  /\ UNCHANGED <<shown, lastTranscript, refs, audio, cap, sess, closeCalls, devices,
                 clock, inbound, outbound>>
  /\ UNCHANGED budget

\* The session promise resolves: the rest of the try block runs.
ConnectResolve(k) ==
  /\ pc[k] = "connect"
  /\ sess[k] = "connecting"
  /\ sess' = [sess EXCEPT ![k] = "open"]
  /\ sessionRef' = k
  /\ status' = ACTIVE
  /\ frameIntervalRef' = k
  /\ timers' = timers \cup {k}
  /\ graph' = graph \cup {k}
  /\ pc' = [pc EXCEPT ![k] = "done"]
  /\ UNCHANGED <<shown, lastTranscript, audioContextRef, videoSrc, audio, cap,
                 closeCalls, stream, clock, inbound, outbound>>
  /\ UNCHANGED budget

\* The session promise rejects.
ConnectReject(k) ==
  /\ pc[k] = "connect"
  /\ sess[k] # "open"
  /\ sess' = [sess EXCEPT ![k] = IF sess[k] = "connecting" THEN "closed" ELSE sess[k]]
  /\ catch(k)
  /\ UNCHANGED <<shown, lastTranscript, refs, audio, cap, closeCalls, devices, clock,
                 inbound, outbound>>
  /\ UNCHANGED budget

\* ---------------------------------------------------------------- transport callbacks
\* The socket fails: onerror now, its close event later.
OnError(k) ==
  /\ sess[k] \in {"connecting", "open"}
  /\ sess' = [sess EXCEPT ![k] = "errored"]
  /\ status' = ERROR
  /\ UNCHANGED <<shown, lastTranscript, refs, audio, procs, closeCalls, devices, clock,
                 inbound, outbound>>
  /\ UNCHANGED budget

\* The socket closes: by the remote side, after an error, or after close().
OnClose(k) ==
  /\ sess[k] \in {"open", "errored", "closing"}
  /\ sess' = [sess EXCEPT ![k] = "closed"]
  /\ status' = IDLE
  /\ UNCHANGED <<shown, lastTranscript, refs, audio, procs, closeCalls, devices, clock,
                 inbound, outbound>>
  /\ UNCHANGED budget

\* ---------------------------------------------------------------- stopAssistance
\* session.close() on the session sessionRef holds
close(ss, k) == [ss EXCEPT ![k] = IF ss[k] = "open" THEN "closing" ELSE ss[k]]

stopAssistance ==
  /\ timers' = IF frameIntervalRef # 0 THEN timers \ {frameIntervalRef} ELSE timers
  /\ IF sessionRef # 0
     THEN /\ sess' = close(sess, sessionRef)
          /\ closeCalls' = [closeCalls EXCEPT ![sessionRef] = @ + 1]
     ELSE UNCHANGED <<sess, closeCalls>>
  /\ SetAudio(stopAudio(AudioState, "stopped"))
  /\ stream' = IF videoSrc # 0 THEN [stream EXCEPT ![videoSrc] = "stopped"] ELSE stream
  /\ status' = IDLE

\* The click on the stop button, rendered only when the rendered status is ACTIVE.
StopClick ==
  /\ shown = ACTIVE
  /\ stopAssistance
  /\ shown' = IDLE
  /\ UNCHANGED <<lastTranscript, refs, procs, graph, clock, inbound, outbound>>
  /\ UNCHANGED budget

\* React renders an update made outside a click handler.
Render ==
  /\ shown # status
  /\ shown' = status
  /\ UNCHANGED <<status, lastTranscript, refs, audio, procs, sess, closeCalls, devices,
                 clock, inbound, outbound>>
  /\ UNCHANGED budget

\* ---------------------------------------------------------------- outbound
\* sessionRef.current.sendRealtimeInput: the call as the transport sees it
\* (ss: the state of that session at the call, tick: the frame's sampler tick)
sendRealtimeInput(kind, tick) ==
  [kind |-> kind, s |-> sessionRef, st |-> status, ss |-> sess[sessionRef], tick |-> tick]

\* ---------------------------------------------------------------- audio send loop
\* scriptProcessor.onaudioprocess of invocation k: `status` is the constant of
\* the render whose startAssistance was clicked.
AudioProcess(k) ==
  /\ k \in graph
  /\ cbFired < MaxAudioCb
  /\ Load + OutboundCost <= budget
  /\ cbFired' = cbFired + 1
  /\ cbOwed' = IF status = ACTIVE /\ sessionRef # 0 THEN cbOwed + 1 ELSE cbOwed
  /\ sent' = IF cap[k] = ACTIVE /\ sessionRef # 0
             THEN Append(sent, sendRealtimeInput("pcm", 0))
             ELSE sent
  /\ UNCHANGED <<status, shown, lastTranscript, refs, audio, procs, sess, closeCalls,
                 devices, clock, inbound, frames>>
  /\ UNCHANGED budget

\* ---------------------------------------------------------------- frame sampler
InFlight == {n \in DOMAIN frames : frames[n].stage \in {"blob", "read"}}

\* The setInterval callback of timer k: draws the frame and calls canvas.toBlob.
FrameTick(k) ==
  /\ k \in timers
  /\ Len(frames) < MaxTicks
  /\ Load + OutboundCost <= budget
  /\ frames' = IF sessionRef = 0 THEN Append(frames, [stage |-> "skipped", behind |-> 0])
                ELSE Append(frames, [stage |-> "blob", behind |-> Cardinality(InFlight)])
  /\ UNCHANGED <<status, shown, lastTranscript, refs, audio, procs, sess, closeCalls,
                 devices, clock, inbound, cbFired, cbOwed, sent>>
  /\ UNCHANGED budget

\* The toBlob callback of tick n: a blob is handed to a FileReader, null is dropped.
BlobDone(n, blob) ==
  /\ n \in DOMAIN frames
  /\ frames[n].stage = "blob"
  /\ frames' = [frames EXCEPT ![n].stage = IF blob THEN "read" ELSE "dropped"]
  /\ UNCHANGED <<status, shown, lastTranscript, refs, audio, procs, sess, closeCalls,
                 devices, clock, inbound, cbFired, cbOwed, sent>>
  /\ UNCHANGED budget

\* reader.onloadend that discards the frame of a tick a newer tick has overtaken
ReadDone_DropStale(n) ==
  /\ n \in DOMAIN frames
  /\ frames[n].stage = "read"
  /\ frames' = [frames EXCEPT ![n].stage = "done"]
  /\ sent' = IF n = Len(frames) THEN Append(sent, sendRealtimeInput("jpeg", n)) ELSE sent
  /\ UNCHANGED <<status, shown, lastTranscript, refs, audio, procs, sess, closeCalls,
                 devices, clock, inbound, cbFired, cbOwed>>
  /\ UNCHANGED budget

\* reader.onloadend of tick n: the frame is sent on the session sessionRef holds now.
ReadDone(n) ==
  /\ n \in DOMAIN frames
  /\ frames[n].stage = "read"
  /\ frames' = [frames EXCEPT ![n].stage = "done"]
  /\ sent' = Append(sent, sendRealtimeInput("jpeg", n))
  /\ UNCHANGED <<status, shown, lastTranscript, refs, audio, procs, sess, closeCalls,
                 devices, clock, inbound, cbFired, cbOwed>>
  /\ UNCHANGED budget

\* ---------------------------------------------------------------- specification
\* The component after its first render
Constructed ==
  /\ status = IDLE
  /\ shown = IDLE
  /\ lastTranscript = 0
  /\ audioContextRef = 0
  /\ sessionRef = 0
  /\ nextStartTime = 0
  /\ activeSources = {}
  /\ frameIntervalRef = 0
  /\ videoSrc = 0
  /\ pc = [k \in Starts |-> "idle"]
  /\ cap = [k \in Starts |-> IDLE]
  /\ sess = [k \in Starts |-> "none"]
  /\ closeCalls = [k \in Starts |-> 0]
  /\ stream = [k \in Starts |-> "none"]
  /\ timers = {}
  /\ graph = {}
  /\ now = 0
  /\ ctxBirth = [k \in Starts |-> 0]
  /\ log = <<>>
  /\ flushed = "no"
  /\ pending = {}
  /\ delivered = 0
  /\ cbFired = 0
  /\ cbOwed = 0
  /\ sent = <<>>
  /\ frames = <<>>
  /\ interruptedAt = 0
  /\ userSaid = 0

Init == Constructed /\ budget = MaxLoad

\* The same component, explored one event further
InitCarry == Constructed /\ budget = MaxLoad + 1

\* Everything but the user's clicks
Callbacks ==
  \/ Render
  \/ Tick
  \/ \E k \in Starts : MediaOk(k)
  \/ \E k \in Starts : MediaFail(k)
  \/ \E k \in Starts : ConnectResolve(k)
  \/ \E k \in Starts : ConnectReject(k)
  \/ \E k \in Starts : OnError(k)
  \/ \E k \in Starts : OnClose(k)
  \/ \E k \in Starts, m \in Messages : Deliver(k, m)
  \/ \E p \in pending : DecodeDone(p)
  \/ \E p \in pending : DecodeFail(p)
  \/ \E k \in Starts : FrameTick(k)
  \/ \E n \in DOMAIN frames, blob \in BOOLEAN : BlobDone(n, blob)
  \/ \E n \in DOMAIN frames : ReadDone(n)
  \/ \E h \in activeSources : Ended(h)
  \/ \E k \in Starts : AudioProcess(k)

Next ==
  \/ StartClick
  \/ StopClick
  \/ Callbacks

\* The runs in which the user clicks only a button of an up-to-date render
NextRendered ==
  \/ shown = status /\ StartClick
  \/ shown = status /\ StopClick
  \/ Callbacks

Spec == Init /\ [][Next]_vars

SpecRendered == Init /\ [][NextRendered]_vars

SpecCarry == InitCarry /\ [][NextRendered]_vars

\* ---------------------------------------------------------------- properties
Handles == DOMAIN log
End(h)  == log[h].start + log[h].dur
Live    == {k \in Starts : sess[k] \in {"connecting", "open"}}
PcmSent == {i \in DOMAIN sent : sent[i].kind = "pcm"}

\* C1 (as claimed): every chunk ever scheduled starts at or after the end of every
\* chunk scheduled before it, and never before the output clock's current time.
C1_NoOverlapAnyPair ==
  /\ \A i, j \in Handles : i < j => log[j].start >= End(i)
  /\ \A h \in Handles : log[h].start >= log[h].clock

\* C1 (amended): the same for every pair of chunks with no flush of the schedule
\* (stopAudio, by onInterrupted or stopAssistance) between their scheduling.
C1_NoOverlapSinceFlush ==
  /\ \A i, j \in Handles :
       (i < j /\ \A n \in (i + 1)..j : log[n].after = "no") => log[j].start >= End(i)
  /\ \A h \in Handles : log[h].start >= log[h].clock

\* Two chunks scheduled back to back, the second queued behind the first.
C1_Witness ==
  \E i, j \in Handles :
    /\ j = i + 1
    /\ log[j].after = "no"
    /\ log[j].start = End(i)
    /\ log[j].start > log[j].clock

\* C2: once onInterrupted has run, no source is left playing, the active set is
\* empty and the cursor is 0; the first chunk scheduled after it starts exactly
\* at the output clock's current time.
C2_FlushCompleteness ==
  /\ flushed = "interrupted" =>
       /\ activeSources = {}
       /\ nextStartTime = 0
       /\ \A h \in Handles : log[h].state # "scheduled"
  /\ \A h \in Handles : log[h].after = "interrupted" => log[h].start = log[h].clock

\* A chunk stopped by an interrupt while its reservation reached into the future,
\* and the next chunk started at the clock instead of behind that reservation.
C2_Witness ==
  \E i, j \in Handles :
    /\ j = i + 1
    /\ log[i].state = "stopped"
    /\ log[j].after = "interrupted"
    /\ log[j].start = log[j].clock
    /\ log[j].start < End(i)

\* C3: stopAssistance invoked while status is IDLE changes nothing and does
\* nothing to the transport.
C3_IdempotentStop ==
  [][(status = IDLE /\ StopClick) =>
       UNCHANGED <<status, nextStartTime, activeSources, timers, sess, closeCalls,
                   stream>>]_vars

\* C4: every change of status is a row of the transition table.
TransitionTable ==
  {<<IDLE, CONNECTING>>, <<ERROR, CONNECTING>>, <<CONNECTING, ACTIVE>>,
   <<CONNECTING, ERROR>>, <<ACTIVE, ERROR>>, <<ACTIVE, IDLE>>}

C4_OnlyTableTransitions ==
  [][status' # status => <<status, status'>> \in TransitionTable]_vars

\* C5: outside ACTIVE no frame-sampler timer is armed and no audio frame is sent.
C5_CadencesOnlyWhileActive ==
  /\ status # ACTIVE => timers = {}
  /\ \A i \in PcmSent : sent[i].st = ACTIVE

\* C6: once an invocation of startAssistance has run to its end or failed and
\* status is IDLE or ERROR, every capture stream is released, the schedule is
\* flushed and no transport session is left connecting or open.
C6_TeardownConverges ==
  (status \in {IDLE, ERROR} /\ \E k \in Starts : pc[k] \in {"done", "failed"}) =>
    /\ \A k \in Starts : stream[k] # "live"
    /\ activeSources = {}
    /\ nextStartTime = 0
    /\ Live = {}

\* C7: a status of ERROR or IDLE changes only by a start, and then to CONNECTING.
C7_TerminalUntilStart ==
  [][(status \in {ERROR, IDLE} /\ status' # status) =>
       (status' = CONNECTING /\ \E k \in Starts : pc[k] = "idle" /\ pc'[k] = "media")]_vars

\* C8: at most one transport session is connecting or open, and an open session
\* is the one sessionRef holds.
C8_OneTransport ==
  /\ Cardinality(Live) <= 1
  /\ \A k \in Starts : sess[k] = "open" => sessionRef = k

C10_AudioLoopSends ==
  Cardinality(PcmSent) = cbOwed

JpegSent      == {i \in DOMAIN sent : sent[i].kind = "jpeg"}
SentOfTick(n) == {i \in JpegSent : sent[i].tick = n}

\* C11: frames reach the transport in the order of their sampler ticks: of two
\* frames sent, the one sent first is the one of the earlier tick.
C11_FramesInOrder ==
  \A i, j \in JpegSent : i < j => sent[i].tick < sent[j].tick

\* C12: a sampler tick fires and starts its capture whatever encodes are still
\* in flight, and the frame of every tick is sent exactly once when its encode
\* and read have completed, and not at all before that.
C12_FrameDropTolerance ==
  /\ \A n \in DOMAIN frames :
       Cardinality(SentOfTick(n)) = IF frames[n].stage = "done" THEN 1 ELSE 0
  /\ \A k \in timers :
       (InFlight # {} /\ Len(frames) < MaxTicks /\ Load + OutboundCost <= budget)
         => ENABLED FrameTick(k)

\* Tick n fired while the encode of tick n - 1 was in flight, and the frame of
\* tick n - 1 has been sent since.
C12_Witness ==
  \E n \in DOMAIN frames :
    /\ n > 1
    /\ frames[n].stage # "skipped"
    /\ frames[n].behind >= 1
    /\ frames[n - 1].stage = "done"
    /\ Cardinality(SentOfTick(n - 1)) = 1

\* C13: the failure of one chunk's decode changes neither the status nor any
\* transport, and the interrupt carried by the same message is still handled.
C13_DecodeFailureIsolated ==
  [][\A p \in pending :
       DecodeFail(p) =>
         /\ status' = status
         /\ sess' = sess
         /\ p.m.interrupted => interruptedAt' >= p.id]_vars

\* C14: a transcription message changes lastTranscript only when it is the
\* model's: an input transcription changes nothing the component holds, an
\* output transcription sets lastTranscript to its text and changes nothing else.
C14_TranscriptOnlyFromModel ==
  [][delivered' # delivered =>
       \A k \in Starts, m \in Messages :
         (m.outT \/ m.inT) /\ Deliver(k, m) =>
           /\ m.inT  => lastTranscript' = lastTranscript
           /\ m.outT => lastTranscript' = delivered'
           /\ UNCHANGED <<status, shown, refs, audio, sess, devices>>]_vars

\* An output transcription is shown and a later input transcription has been
\* handed to onTranscription since.
C14_Witness ==
  /\ lastTranscript >= 1
  /\ userSaid > lastTranscript

\* The invocations of startAssistance that ended in the catch block because
\* getUserMedia rejected (no connect was made)
MediaFailed == {k \in Starts : pc[k] = "failed" /\ sess[k] = "none"}

\* C15: when getUserMedia rejects, the status becomes ERROR and the invocation
\* makes no connect and starts neither the frame timer nor the audio loop, then
\* or later; a new invocation begins only with a click on the start button.
C15_MediaFailure ==
  [][\A k \in Starts :
       /\ MediaFail(k) => status' = ERROR /\ k \in MediaFailed'
       /\ k \in MediaFailed =>
            /\ k \in MediaFailed'
            /\ k \notin timers' /\ k \notin graph'
            /\ stream'[k] = "none"
            /\ sessionRef' # k /\ frameIntervalRef' # k
       /\ (pc[k] = "idle" /\ pc'[k] # "idle") => StartClick]_vars

\* getUserMedia has rejected and the component shows the error.
C15_Witness ==
  /\ MediaFailed # {}
  /\ status = ERROR
  /\ shown = ERROR

\* C16: every chunk starts at the later of the cursor and the output clock read
\* when it was scheduled, the cursor is left at its end, and its handle is in
\* the active set from its scheduling until it ends or is flushed.
C16_StartAndCursor ==
  /\ \A h \in Handles : log[h].start = Max(log[h].cursor, log[h].clock)
  /\ \A h \in Handles :
       IF h < Len(log) THEN log[h + 1].after = "no" => log[h + 1].cursor = End(h)
       ELSE flushed = "no" => nextStartTime = End(h)
  /\ \A h \in Handles : h \in activeSources <=> log[h].state = "scheduled"

\* Three equal chunks scheduled with the output clock at 0 start at 0, d and 2d.
C16_Witness ==
  /\ Len(log) >= 3
  /\ \A h \in 1..3 :
       /\ log[h].clock = 0
       /\ log[h].dur = log[1].dur
       /\ log[h].start = (h - 1) * log[1].dur
       /\ h \in activeSources
  /\ nextStartTime = 3 * log[1].dur

\* The first chunk a session's callbacks scheduled, when it went to that
\* session's own output context and every chunk before it had been scheduled
\* before the session's startAssistance ran (on an earlier context)
FirstOfSession ==
  {h \in Handles : /\ log[h].ctx = log[h].via
                   /\ \A g \in 1..(h - 1) : log[g].ctx < log[h].via}

\* C17: the first chunk scheduled in any session starts at the time the output
\* clock of that session reads when it is scheduled, whatever earlier sessions
\* left behind.
C17_NoCursorCarryOver ==
  \A h \in FirstOfSession : log[h].start = log[h].clock

C19_NoSendAfterClose ==
  \A i \in DOMAIN sent : sent[i].ss \notin {"closing", "closed"}

\* C20: while the status is IDLE or ERROR no source is in the active set.
C20_NoPlaybackOutsideSession ==
  status \in {IDLE, ERROR} => activeSources = {}
====
